---- MODULE Spec2Model ----
(***************************************************************************)
(* canvas-trello-sync: the runs of the binary (src/bin/canvas_trello_sync.rs)*)
(* against a course service (canvas.rs) and a board service (trello.rs).   *)
(* The run is a sequential program; every action below is one stretch of   *)
(* main / sync_mapping / sync_assignment between two awaits.               *)
(***************************************************************************)
EXTENDS Integers, Sequences, FiniteSets, TLC

(* ---------------------------------------------------------------- bounds *)
MaxCards == 2
MaxAssignments == 2
MaxMappings == 2
MaxRuns == 2

(* ------------------------------------------------------------ data model *)
\* Option<T>: Some(x) is the one-element sequence, None the empty one.
Some(x) == <<x>>
None == <<>>

\* The marker of managed cards, `desc_header` of sync_assignment.
desc_header == "Canvas Trello Sync"
desc_rule == "\n\n---\n\n"

\* A text is a sequence of segments; starts_with looks at the leading one.
starts_with(s, prefix) == Len(s) >= 1 /\ s[1] = prefix

\* html2md::parse_html on the descriptions the course service returns here.
html2md(h) ==
  CASE h = "<p>a</p>" -> "a"
    [] h = "<b>a</b>" -> "**a**"
    [] OTHER -> h

\* url::Url as scheme + remainder; as_str / to_string print both.
Url(s, r) == [scheme |-> s, rest |-> r]
SpecialSchemes == {"http", "https", "ws", "wss", "ftp", "file"}
url_as_str(u) == <<u.scheme, u.rest>>

\* Url::set_scheme: refuses (Err) to move between special and non-special.
set_scheme_ok(u, s) == (u.scheme \in SpecialSchemes) = (s \in SpecialSchemes)
set_scheme(u, s) == Url(s, u.rest)

\* CustomFieldValue (untagged enum) and CustomFieldItem::as_str.
TextValue(t) == [kind |-> "Text", text |-> t]
OtherValue == [kind |-> "Other", text |-> <<>>]
Item(f, v) == [id_custom_field |-> f, value |-> v]
as_str(item) == IF item.value.kind = "Text" THEN Some(item.value.text) ELSE None

\* Assignment::submitted.
submitted(a) == a.submitted

\* The description sync_assignment renders for an assignment.
new_description_of(a) ==
  IF a.description = None
    THEN <<desc_header>>
    ELSE <<desc_header, desc_rule, html2md(a.description[1])>>

\* Faulty variant: the last entry of the name wins.
RECURSIVE find_by_name_last(_, _)
find_by_name_last(xs, name) ==
  IF xs = <<>> THEN None
  ELSE IF find_by_name_last(Tail(xs), name) /= None THEN find_by_name_last(Tail(xs), name)
  ELSE IF Head(xs).name = name THEN Some(Head(xs).id)
  ELSE None

\* Iterator::find over a list of {id, name}: id of the first match, or None.
RECURSIVE find_by_name(_, _)
find_by_name(xs, name) ==
  IF xs = <<>> THEN None
  ELSE IF Head(xs).name = name THEN Some(Head(xs).id)
  ELSE find_by_name(Tail(xs), name)

\* The first item of a card carrying the field id, mapped through as_str.
RECURSIVE find_item_text(_, _)
find_item_text(items, field_id) ==
  IF items = <<>> THEN None
  ELSE IF Head(items).id_custom_field = field_id THEN as_str(Head(items))
  ELSE find_item_text(Tail(items), field_id)

\* Faulty variant: find instead of filter: only the first matching card is kept.
RECURSIVE cards_with_url_first(_, _, _)
cards_with_url_first(cards, field_id, url) ==
  IF cards = <<>> THEN <<>>
  ELSE IF find_item_text(Head(cards).custom_field_items, field_id) = Some(url_as_str(url))
    THEN <<Head(cards)>>
    ELSE cards_with_url_first(Tail(cards), field_id, url)

\* Faulty variant: the matched cards come out last card first.
RECURSIVE cards_with_url_reversed(_, _, _)
cards_with_url_reversed(cards, field_id, url) ==
  IF cards = <<>> THEN <<>>
  ELSE IF find_item_text(Head(cards).custom_field_items, field_id) = Some(url_as_str(url))
    THEN cards_with_url_reversed(Tail(cards), field_id, url) \o <<Head(cards)>>
    ELSE cards_with_url_reversed(Tail(cards), field_id, url)

\* The filter of sync_assignment: snapshot cards whose tracking text is url.
RECURSIVE cards_with_url(_, _, _)
cards_with_url(cards, field_id, url) ==
  IF cards = <<>> THEN <<>>
  ELSE IF find_item_text(Head(cards).custom_field_items, field_id) = Some(url_as_str(url))
    THEN <<Head(cards)>> \o cards_with_url(Tail(cards), field_id, url)
    ELSE cards_with_url(Tail(cards), field_id, url)

\* Faulty variant: a card without due is taken to need no due.
mismatch_due_if_set(card, a) == card.due /= None /\ card.due /= Some(a.due_at)
\* Faulty variant: every managed card is taken to have a stale description.
mismatch_desc_any_managed(card, a) == starts_with(card.desc, desc_header)

\* The three flags of the update loop.
mismatch_due(card, a) == card.due /= Some(a.due_at)
\* Faulty variant: only a card marked complete for an open assignment is flagged.
mismatch_complete_one_way(card, a) == card.due_complete /\ ~submitted(a)
mismatch_complete(card, a) == card.due_complete /= submitted(a)
\* Faulty variant: the description is compared whether or not the card is managed.
mismatch_desc_unguarded(card, a) == card.desc /= new_description_of(a)
mismatch_desc(card, a) ==
  starts_with(card.desc, desc_header) /\ card.desc /= new_description_of(a)
should_update(card, a) ==
  mismatch_due(card, a) \/ mismatch_complete(card, a) \/ mismatch_desc(card, a)

\* Faulty variant: the patch carries the header instead of the rendered description.
patch_header_only(a) ==
  [due |-> a.due_at, dueComplete |-> submitted(a), desc |-> <<desc_header>>]

\* Faulty variant: the patch renames the card after the assignment.
patch_with_name(a) ==
  [due |-> a.due_at, dueComplete |-> submitted(a), desc |-> new_description_of(a),
   name |-> a.name]

\* The patch handed to update_card.
patch_of(a) ==
  [due |-> a.due_at, dueComplete |-> submitted(a), desc |-> new_description_of(a)]

\* Faulty variant: the new card is never created complete.
new_card_fields_unflagged(a, label) ==
  [name |-> a.name, desc |-> new_description_of(a), due |-> a.due_at,
   due_complete |-> FALSE, label_ids |-> <<label>>]

\* The CreateCard handed to create_card.
new_card_fields_of(a, label) ==
  [name |-> a.name, desc |-> new_description_of(a), due |-> a.due_at,
   due_complete |-> submitted(a), label_ids |-> <<label>>]

(* ------------------------------------------------------ the board service *)
\* PUT /cards/{id} with the query the patch becomes.
RECURSIVE board_update(_, _, _)
board_update(cards, id, patch) ==
  IF cards = <<>> THEN <<>>
  ELSE <<IF Head(cards).id = id
           THEN [Head(cards) EXCEPT !.due = Some(patch.due),
                                    !.due_complete = patch.dueComplete,
                                    !.desc = patch.desc]
           ELSE Head(cards)>> \o board_update(Tail(cards), id, patch)

\* POST /cards: the board appends the card and answers with it.
board_new_card(cards, list_id, f) ==
  [id |-> Len(cards) + 1, name |-> f.name, desc |-> f.desc, due |-> Some(f.due),
   due_complete |-> f.due_complete, labels |-> f.label_ids, list |-> list_id,
   custom_field_items |-> <<>>]

\* PUT /cards/{id}/customField/{field}/item: one item per field and card.
RECURSIVE items_without(_, _)
items_without(items, field_id) ==
  IF items = <<>> THEN <<>>
  ELSE IF Head(items).id_custom_field = field_id
    THEN items_without(Tail(items), field_id)
    ELSE <<Head(items)>> \o items_without(Tail(items), field_id)

RECURSIVE board_set_field(_, _, _, _)
board_set_field(cards, id, field_id, value) ==
  IF cards = <<>> THEN <<>>
  ELSE <<IF Head(cards).id = id
           THEN [Head(cards) EXCEPT !.custom_field_items =
                   items_without(@, field_id) \o <<Item(field_id, value)>>]
           ELSE Head(cards)>> \o board_set_field(Tail(cards), id, field_id, value)

(* ----------------------------------------------------------------- inputs *)
SeqsUpTo(S, n) == UNION {[1..k -> S] : k \in 0..n}

http1 == Url("http", "//lms/a/1")
https1 == Url("https", "//lms/a/1")
https2 == Url("https", "//lms/a/2")
mailto == Url("mailto", "ta@lms")

Assignment(u, t, s, d) ==
  [name |-> "HW", description |-> d, due_at |-> t, html_url |-> u, submitted |-> s]
Card(i, t, c, d) ==
  [name |-> "card", desc |-> d, due |-> t, due_complete |-> c, labels |-> <<>>,
   list |-> "li1", custom_field_items |-> i]
WithIds(cs) == [k \in 1..Len(cs) |-> [id |-> k] @@ cs[k]]

\* The board: what GET /boards/{id} answers with.
Labels == <<[id |-> "lb1", name |-> "Math"], [id |-> "lb2", name |-> "Art"],
            [id |-> "lb3", name |-> "Math"]>>
GoodFields == <<[id |-> "f0", name |-> "Points"], [id |-> "f1", name |-> "Canvas URL"],
                [id |-> "f2", name |-> "Canvas URL"]>>
BadFields == <<[id |-> "f1", name |-> "canvas url"]>>
GoodLists == <<[id |-> "li1", name |-> "Done"], [id |-> "li2", name |-> "To Do"],
               [id |-> "li3", name |-> "To Do"]>>
BadLists == <<[id |-> "li1", name |-> "Done"]>>
Tracked1 == <<Item("f1", TextValue(<<"https", "//lms/a/1">>))>>

\* config.toml.
Courses == {"c1", "c2"}
m1 == [canvas_course_id |-> "c1", trello_label_name |-> "Math"]
m2 == [canvas_course_id |-> "c2", trello_label_name |-> "Art"]
m3 == [canvas_course_id |-> "c1", trello_label_name |-> "math"]
add_to_list == "To Do"

Input(fs, ls, cs, ms, crs) ==
  [fields |-> fs, lists |-> ls, cards |-> cs, mapping |-> ms, course |-> crs]

\* The number of assignments a run over mappings ms has to go through.
RECURSIVE Work(_, _)
Work(ms, crs) ==
  IF ms = <<>> THEN 0
  ELSE Len(crs[Head(ms).canvas_course_id]) + Work(Tail(ms), crs)
Mapped(ms) == {ms[k].canvas_course_id : k \in DOMAIN ms}

\* Boards of up to MaxCards cards, tracked and not, managed and not, against one
\* assignment in every state an assignment can be in.
CardInputs ==
  LET cards == {Card(Tracked1, Some(1), FALSE, <<desc_header>>),
                Card(Tracked1, Some(1), FALSE, <<"my notes">>),
                Card(Tracked1, None, FALSE, <<"my notes">>),
                Card(Tracked1, Some(1), TRUE, <<desc_header, desc_rule, "a">>),
                Card(<<Item("f1", OtherValue)>>, None, FALSE, <<"my notes">>),
                Card(<<>>, Some(1), FALSE, <<desc_header>>),
                Card(<<Item("f0", TextValue(<<"https", "//lms/a/1">>))>>, Some(1), FALSE,
                     <<desc_header>>),
                Card(<<Item("f1", OtherValue)>> \o Tracked1, Some(1), FALSE, <<desc_header>>)}
      asgs == {Assignment(http1, t, s, d) :
                  t \in {1, 2}, s \in BOOLEAN, d \in {None, Some("<p>a</p>")}}
  IN  {Input(GoodFields, GoodLists, cs, <<m1>>,
             [c \in Courses |-> IF c = "c1" THEN <<a>> ELSE <<>>]) :
         cs \in SeqsUpTo(cards, MaxCards), a \in asgs}

\* The course service answering the mappings ms with up to MaxAssignments
\* assignments in all, taken from asgs.
CourseLists(ms, asgs) ==
  {f \in [Courses -> SeqsUpTo(asgs, MaxAssignments)] :
     /\ Work(ms, f) <= MaxAssignments
     /\ \A c \in Courses \ Mapped(ms) : f[c] = <<>>}

\* Configurations of up to MaxMappings mappings that make a run go through up to
\* MaxAssignments assignments, against a board with or without a tracked card.
RunInputs ==
  LET boards == {<<>>, <<Card(Tracked1, Some(1), FALSE, <<desc_header>>)>>}
      asgs == {Assignment(http1, 1, FALSE, None),
               Assignment(https1, 1, FALSE, None),
               Assignment(https1, 2, TRUE, Some("<b>a</b>")),
               Assignment(https2, 1, TRUE, Some("<p>a</p>")),
               Assignment(mailto, 1, FALSE, None)}
  IN  UNION {{Input(GoodFields, GoodLists, cs, ms, crs) :
                cs \in boards, crs \in CourseLists(ms, asgs)} :
               ms \in SeqsUpTo({m1, m2, m3}, MaxMappings)}

\* Boards without the tracking field or without the list new cards go to; the
\* cards are not read before both lookups succeeded.
BadBoardInputs ==
  {Input(fl[1], fl[2], <<>>, <<m1>>, [c \in Courses |-> IF c = "c1" THEN a ELSE <<>>]) :
     fl \in {<<BadFields, GoodLists>>, <<GoodFields, BadLists>>},
     a \in {<<>>, <<Assignment(http1, 1, FALSE, None)>>}}

Inputs == CardInputs \cup RunInputs \cup BadBoardInputs

\* What the binary is run against again and again: a board with one tracked
\* card, one mapping or two, labels that exist, well-formed URLs, two of the
\* assignments behind one canonical URL.
RerunInputs ==
  LET cs == <<Card(Tracked1, Some(1), FALSE, <<desc_header>>)>>
      asgs == {Assignment(http1, 1, FALSE, None),
               Assignment(https1, 2, TRUE, Some("<b>a</b>")),
               Assignment(https2, 1, TRUE, Some("<p>a</p>"))}
  IN  UNION {{Input(GoodFields, GoodLists, cs, ms, crs) : crs \in CourseLists(ms, asgs)} :
               ms \in {<<m1>>, <<m1, m2>>}}

(* ------------------------------------------------------------------ state *)
VARIABLES
  board,                  \* the board as the board service holds it
  config,                 \* the parsed configuration
  course,                 \* the course service: course id -> assignments
  run,                    \* number of the current run of the binary
  past,                   \* how the earlier runs ended
  pc,                     \* where the run stands
  current_board,          \* Context.current_board (the snapshot)
  canvas_url_field_id,    \* Context.canvas_url_field_id
  new_card_list_id,       \* Context.new_card_list_id
  count_assignments, count_created, count_updated, count_up_to_date,
  mi,                     \* index of the mapping main is at
  assignments,            \* the list sync_mapping iterates
  ai,                     \* index of the assignment sync_mapping is at
  canvas_url, label_id, cards_with_correct_url,  \* locals of sync_assignment
  ci,                     \* index of the card the update loop is at
  new_card,               \* the card create_card returned
  calls                   \* the collaborator calls and decisions of this run

counters == <<count_assignments, count_created, count_updated, count_up_to_date>>
ctx == <<current_board, canvas_url_field_id, new_card_list_id>>
locals == <<canvas_url, label_id, cards_with_correct_url, ci, new_card>>
world == <<config, course, run, past>>
vars == <<board, world, pc, ctx, counters, mi, assignments, ai, locals, calls>>

NoBoard == [cards |-> <<>>, custom_fields |-> <<>>, labels |-> <<>>, lists |-> <<>>]
NoUrl == Url("", "")
NoCard == [id |-> 0]

\* The state of a process that has just parsed its arguments and configuration.
Fresh ==
  /\ pc = "start"
  /\ current_board = NoBoard
  /\ canvas_url_field_id = ""
  /\ new_card_list_id = ""
  /\ count_assignments = 0 /\ count_created = 0
  /\ count_updated = 0 /\ count_up_to_date = 0
  /\ mi = 1 /\ assignments = <<>> /\ ai = 1
  /\ canvas_url = NoUrl /\ label_id = "" /\ cards_with_correct_url = <<>>
  /\ ci = 1 /\ new_card = NoCard
  /\ calls = <<>>

\* The first start of the binary against one of the inputs ins.
Start(ins) ==
  /\ \E in \in ins :
       /\ board = [cards |-> WithIds(in.cards), custom_fields |-> in.fields,
                   labels |-> Labels, lists |-> in.lists]
       /\ config = [add_to_list |-> add_to_list, mapping |-> in.mapping]
       /\ course = in.course
  /\ run = 1
  /\ past = <<>>
  /\ Fresh

Init == Start(Inputs)
InitRerun == Start(RerunInputs)

(* ---------------------------------------------------------------- actions *)
\* One entry of the run's record: a collaborator call with its outcome, or a
\* decision that needs no call.  res: "ok", "err" (the call returned Err) or
\* "rejected" (the service answered with an error status the client ignores).
Call(op, m, a, card, res, req) ==
  [op |-> op, m |-> m, a |-> a, card |-> card, res |-> res, req |-> req]
NoReq == [none |-> TRUE]

assignment == assignments[ai]
existing_card == cards_with_correct_url[ci]

\* main, lines 69-78: get_board_contents.
GetBoardContents ==
  /\ pc = "start"
  /\ \E res \in {"ok", "err"} :
       /\ calls' = Append(calls, Call("get_board_contents", 0, 0, 0, res, NoReq))
       /\ IF res = "ok"
            THEN /\ current_board' = board
                 /\ pc' = "find_field"
            ELSE /\ current_board' = current_board
                 /\ pc' = "failed"
  /\ UNCHANGED <<board, world, canvas_url_field_id, new_card_list_id, counters, mi,
                 assignments, ai, locals>>

\* main, lines 80-90: the id of the `Canvas URL` custom field.
FindCanvasUrlField ==
  /\ pc = "find_field"
  /\ LET found == find_by_name(current_board.custom_fields, "Canvas URL") IN
       IF found = None
         THEN /\ pc' = "failed"
              /\ canvas_url_field_id' = canvas_url_field_id
         ELSE /\ pc' = "find_list"
              /\ canvas_url_field_id' = found[1]
  /\ UNCHANGED <<board, world, current_board, new_card_list_id, counters, mi,
                 assignments, ai, locals, calls>>

\* Faulty variant: without a list of the configured name the first list is taken.
FindNewCardList_first_list ==
  /\ pc = "find_list"
  /\ LET found == find_by_name(current_board.lists, config.add_to_list) IN
       /\ pc' = "mappings"
       /\ new_card_list_id' = IF found = None THEN current_board.lists[1].id ELSE found[1]
  /\ UNCHANGED <<board, world, current_board, canvas_url_field_id, counters, mi,
                 assignments, ai, locals, calls>>

\* main, lines 92-117: the id of the list new cards go to; the context.
FindNewCardList ==
  /\ pc = "find_list"
  /\ LET found == find_by_name(current_board.lists, config.add_to_list) IN
       IF found = None
         THEN /\ pc' = "failed"
              /\ new_card_list_id' = new_card_list_id
         ELSE /\ pc' = "mappings"
              /\ new_card_list_id' = found[1]
  /\ UNCHANGED <<board, world, current_board, canvas_url_field_id, counters, mi,
                 assignments, ai, locals, calls>>

\* main line 120 into sync_mapping, lines 154-160: get_assignments.
GetAssignments ==
  /\ pc = "mappings"
  /\ mi <= Len(config.mapping)
  /\ \E res \in {"ok", "err"} :
       /\ calls' = Append(calls, Call("get_assignments", mi, 0, 0, res,
                                      [course_id |-> config.mapping[mi].canvas_course_id]))
       /\ IF res = "ok"
            THEN /\ assignments' = course[config.mapping[mi].canvas_course_id]
                 /\ ai' = 1
                 /\ pc' = "assignments"
            ELSE /\ UNCHANGED <<assignments, ai>>
                 /\ pc' = "failed"
  /\ UNCHANGED <<board, world, ctx, counters, mi, locals>>

\* sync_mapping lines 163-167 into sync_assignment, lines 179-217: the counter,
\* the canonical URL, the label, the description and the matched cards.
BeginAssignment ==
  /\ pc = "assignments"
  /\ ai <= Len(assignments)
  /\ count_assignments' = count_assignments + 1
  /\ IF ~set_scheme_ok(assignment.html_url, "https")
       THEN \* line 181: unwrap of Err panics
            /\ pc' = "panicked"
            /\ UNCHANGED locals
       ELSE LET url == set_scheme(assignment.html_url, "https")
                found == find_by_name(current_board.labels,
                                      config.mapping[mi].trello_label_name)
            IN  /\ canvas_url' = url
                /\ IF found = None
                     THEN /\ pc' = "failed"
                          /\ UNCHANGED <<label_id, cards_with_correct_url, ci, new_card>>
                     ELSE /\ pc' = "cards"
                          /\ label_id' = found[1]
                          /\ cards_with_correct_url' =
                               cards_with_url(current_board.cards, canvas_url_field_id, url)
                          /\ ci' = 1
                          /\ new_card' = NoCard
  /\ UNCHANGED <<board, world, ctx, count_created, count_updated, count_up_to_date,
                 mi, assignments, ai, calls>>

\* Faulty variant: the up-to-date decision is not counted.
CardUpToDate_uncounted ==
  /\ pc = "cards"
  /\ ci <= Len(cards_with_correct_url)
  /\ ~should_update(existing_card, assignment)
  /\ calls' = Append(calls, Call("up_to_date", mi, ai, existing_card.id, "ok", NoReq))
  /\ ci' = ci + 1
  /\ UNCHANGED <<board, world, pc, ctx, counters, mi, assignments, ai, canvas_url,
                 label_id, cards_with_correct_url, new_card>>

\* sync_assignment, lines 220-233: the card needs nothing.
CardUpToDate ==
  /\ pc = "cards"
  /\ ci <= Len(cards_with_correct_url)
  /\ ~should_update(existing_card, assignment)
  /\ count_up_to_date' = count_up_to_date + 1
  /\ calls' = Append(calls, Call("up_to_date", mi, ai, existing_card.id, "ok", NoReq))
  /\ ci' = ci + 1
  /\ UNCHANGED <<board, world, pc, ctx, count_assignments, count_created,
                 count_updated, mi, assignments, ai, canvas_url, label_id,
                 cards_with_correct_url, new_card>>

\* Faulty variant: an update_card that returned an error is skipped, the loop goes on.
UpdateCard_skipping_errors ==
  /\ pc = "cards"
  /\ ci <= Len(cards_with_correct_url)
  /\ should_update(existing_card, assignment)
  /\ \E res \in {"ok", "err", "rejected"} :
       /\ calls' = Append(calls, Call("update_card", mi, ai, existing_card.id, res,
                                      patch_of(assignment)))
       /\ board' = IF res = "ok"
                     THEN [board EXCEPT !.cards =
                             board_update(@, existing_card.id, patch_of(assignment))]
                     ELSE board
       /\ pc' = pc
       /\ count_updated' = IF res = "err" THEN count_updated ELSE count_updated + 1
       /\ ci' = ci + 1
  /\ UNCHANGED <<world, ctx, count_assignments, count_created, count_up_to_date, mi,
                 assignments, ai, canvas_url, label_id, cards_with_correct_url, new_card>>

\* sync_assignment, lines 220-256, and Client::update_card.
UpdateCard ==
  /\ pc = "cards"
  /\ ci <= Len(cards_with_correct_url)
  /\ should_update(existing_card, assignment)
  /\ \E res \in {"ok", "err", "rejected"} :
       /\ calls' = Append(calls, Call("update_card", mi, ai, existing_card.id, res,
                                      patch_of(assignment)))
       /\ board' = IF res = "ok"
                     THEN [board EXCEPT !.cards =
                             board_update(@, existing_card.id, patch_of(assignment))]
                     ELSE board
       /\ IF res = "err"
            THEN /\ pc' = "failed"
                 /\ UNCHANGED <<count_updated, ci>>
            ELSE \* send() is Ok whatever the response status
                 /\ pc' = pc
                 /\ count_updated' = count_updated + 1
                 /\ ci' = ci + 1
  /\ UNCHANGED <<world, ctx, count_assignments, count_created, count_up_to_date, mi,
                 assignments, ai, canvas_url, label_id, cards_with_correct_url, new_card>>

\* sync_assignment, lines 257-260 and 289: cards were matched, nothing to create.
SyncAssignmentReturn ==
  /\ pc = "cards"
  /\ ci > Len(cards_with_correct_url)
  /\ cards_with_correct_url /= <<>>
  /\ ai' = ai + 1
  /\ pc' = "assignments"
  /\ UNCHANGED <<board, world, ctx, counters, mi, assignments, locals, calls>>

\* sync_assignment, lines 260-275, and Client::create_card.
CreateCard ==
  /\ pc = "cards"
  /\ cards_with_correct_url = <<>>
  /\ LET fields == new_card_fields_of(assignment, label_id)
         card == board_new_card(board.cards, new_card_list_id, fields)
     IN \E res \in {"ok", "err"} :
          /\ calls' = Append(calls, Call("create_card", mi, ai,
                                         IF res = "ok" THEN card.id ELSE 0, res,
                                         [idList |-> new_card_list_id] @@ fields))
          /\ IF res = "ok"
               THEN /\ board' = [board EXCEPT !.cards = Append(@, card)]
                    /\ new_card' = card
                    /\ pc' = "set_field"
               ELSE /\ UNCHANGED <<board, new_card>>
                    /\ pc' = "failed"
  /\ UNCHANGED <<world, ctx, counters, mi, assignments, ai, canvas_url, label_id,
                 cards_with_correct_url, ci>>

\* sync_assignment, lines 277-289, and Client::set_card_custom_field.
SetCardCustomField ==
  /\ pc = "set_field"
  /\ LET value == TextValue(url_as_str(canvas_url)) IN
     \E res \in {"ok", "err", "rejected"} :
       /\ calls' = Append(calls, Call("set_card_custom_field", mi, ai, new_card.id, res,
                                      [field_id |-> canvas_url_field_id, value |-> value]))
       /\ board' = IF res = "ok"
                     THEN [board EXCEPT !.cards =
                             board_set_field(@, new_card.id, canvas_url_field_id, value)]
                     ELSE board
       /\ IF res = "err"
            THEN /\ pc' = "failed"
                 /\ UNCHANGED <<count_created, ai>>
            ELSE /\ pc' = "assignments"
                 /\ count_created' = count_created + 1
                 /\ ai' = ai + 1
  /\ UNCHANGED <<world, ctx, count_assignments, count_updated, count_up_to_date, mi,
                 assignments, locals>>

\* sync_mapping, lines 168-170, back in main's loop.
SyncMappingReturn ==
  /\ pc = "assignments"
  /\ ai > Len(assignments)
  /\ mi' = mi + 1
  /\ assignments' = <<>>
  /\ ai' = 1
  /\ pc' = "mappings"
  /\ UNCHANGED <<board, world, ctx, counters, locals, calls>>

\* main, lines 126-135: the summary line, exit status zero.
Summarize ==
  /\ pc = "mappings"
  /\ mi > Len(config.mapping)
  /\ pc' = "done"
  /\ calls' = Append(calls, Call("summary", 0, 0, 0, "ok",
                                 [assignments |-> count_assignments,
                                  created |-> count_created,
                                  updated |-> count_updated,
                                  up_to_date |-> count_up_to_date]))
  /\ UNCHANGED <<board, world, ctx, counters, mi, assignments, ai, locals>>

Ended == pc \in {"done", "failed", "panicked"}

\* What a run leaves behind for the next one to be judged by: how it ended,
\* whether the board turned a call down, whether the board was changed, and the
\* cards left without tracking item with the assignments they were created for.
Outcome ==
  [status |-> pc,
   lost |-> \E k \in DOMAIN calls : calls[k].res = "rejected",
   mutated |-> {calls[k].op : k \in {j \in DOMAIN calls : calls[j].res = "ok"}}
                 \cap {"create_card", "update_card"},
   orphans |-> {<<calls[k].card, calls[k].m, calls[k].a>> :
                  k \in {j \in DOMAIN calls :
                           /\ calls[j].op = "set_card_custom_field"
                           /\ calls[j].res = "err"}}]

\* The binary is started again: a new process, the same configuration, course
\* service and board.
Restart ==
  /\ Ended
  /\ run < MaxRuns
  /\ run' = run + 1
  /\ past' = Append(past, Outcome)
  /\ pc' = "start"
  /\ current_board' = NoBoard
  /\ canvas_url_field_id' = ""
  /\ new_card_list_id' = ""
  /\ count_assignments' = 0 /\ count_created' = 0
  /\ count_updated' = 0 /\ count_up_to_date' = 0
  /\ mi' = 1 /\ assignments' = <<>> /\ ai' = 1
  /\ canvas_url' = NoUrl /\ label_id' = "" /\ cards_with_correct_url' = <<>>
  /\ ci' = 1 /\ new_card' = NoCard
  /\ calls' = <<>>
  /\ UNCHANGED <<board, config, course>>

Next ==
  \/ GetBoardContents
  \/ FindCanvasUrlField
  \/ FindNewCardList
  \/ GetAssignments
  \/ BeginAssignment
  \/ CardUpToDate
  \/ UpdateCard
  \/ SyncAssignmentReturn
  \/ CreateCard
  \/ SetCardCustomField
  \/ SyncMappingReturn
  \/ Summarize

\* One run of the binary.
Spec == Init /\ [][Next]_vars

\* The binary run up to MaxRuns times against the same services.
NextRerun ==
  \/ Next
  \/ Restart

SpecRerun == InitRerun /\ [][NextRerun]_vars

(* ------------------------------------------------------------- vocabulary *)
\* The assignments the course service returns for mapping m, and the a-th.
ListOf(m) == course[config.mapping[m].canvas_course_id]
AsgOf(m, a) == ListOf(m)[a]
Seen == UNION {{<<m, a>> : a \in 1..Len(ListOf(m))} : m \in 1..Len(config.mapping)}

\* sync_assignment has returned Ok for the a-th assignment of mapping m.
Completed(m, a) == m < mi \/ (m = mi /\ a < ai)
\* sync_assignment has got past its lookups for it.
Reached(m, a) ==
  Completed(m, a) \/ (m = mi /\ a = ai /\ pc \in {"cards", "set_field"})

\* The canonical URL of an assignment, as text.
CanonicalText(a) == <<"https", a.html_url.rest>>

\* The value a card holds for the tracking field: that of its first item for it.
TrackingValue(card, field_id) ==
  LET idx == {i \in DOMAIN card.custom_field_items :
                card.custom_field_items[i].id_custom_field = field_id}
  IN  IF idx = {} THEN None
      ELSE Some(card.custom_field_items[CHOOSE i \in idx : \A j \in idx : i <= j].value)
Tracks(card, field_id, a) ==
  TrackingValue(card, field_id) = Some(TextValue(CanonicalText(a)))

\* The positions of the snapshot cards an assignment matches, in snapshot order.
MatchedIdx(a) ==
  {k \in DOMAIN current_board.cards : Tracks(current_board.cards[k], canvas_url_field_id, a)}
RECURSIVE Ascending(_)
Ascending(S) ==
  IF S = {} THEN <<>>
  ELSE LET k == CHOOSE i \in S : \A j \in S : i <= j IN <<k>> \o Ascending(S \ {k})
Matched(a) == [k \in DOMAIN Ascending(MatchedIdx(a)) |->
                 current_board.cards[Ascending(MatchedIdx(a))[k]]]

\* The entries of the run's record that belong to one assignment.
IsBoardCall(c) ==
  c.op \in {"get_board_contents", "create_card", "update_card", "set_card_custom_field"}
IsDecision(c) == c.op \in {"create_card", "update_card", "up_to_date"}
EntriesOf(m, a) == {k \in DOMAIN calls : calls[k].m = m /\ calls[k].a = a}
CallsOf(m, a) == SelectSeq(calls, LAMBDA c : c.m = m /\ c.a = a)
DecisionsOf(m, a) == SelectSeq(CallsOf(m, a), IsDecision)
LabelIdsNamed(name) ==
  {current_board.labels[k].id : k \in {j \in DOMAIN current_board.labels :
                                         current_board.labels[j].name = name}}

(* ----------------------------------------------------------------- claims *)
\* C1: an assignment that matches no card of the snapshot gets one create_card
\* (configured list, the mapping's label, name, rendered description, due_at,
\* submission flag) and then, as the very next board call, one
\* set_card_custom_field on the card create_card returned, with the canonical
\* URL; update_card is never issued for it.  Until sync_assignment has returned
\* the calls are a prefix of that pair.
C1_CreateThenSetField ==
  \A p \in Seen :
    LET m == p[1]
        a == p[2]
        asg == AsgOf(m, a)
        idx == Ascending(EntriesOf(m, a))
        cs == CallsOf(m, a)
    IN  (pc /= "start" /\ MatchedIdx(asg) = {} /\ (Reached(m, a) \/ cs /= <<>>)) =>
          /\ Len(cs) <= 2
          /\ Completed(m, a) => Len(cs) = 2
          /\ Len(cs) >= 1 =>
               /\ cs[1].op = "create_card"
               /\ cs[1].req.idList = new_card_list_id
               /\ cs[1].req.name = asg.name
               /\ cs[1].req.desc = new_description_of(asg)
               /\ cs[1].req.due = asg.due_at
               /\ cs[1].req.due_complete = asg.submitted
               /\ Len(cs[1].req.label_ids) = 1
               /\ cs[1].req.label_ids[1] \in
                    LabelIdsNamed(config.mapping[m].trello_label_name)
          /\ Len(cs) = 2 =>
               /\ cs[1].res = "ok"
               /\ cs[2].op = "set_card_custom_field"
               /\ idx[2] = idx[1] + 1
               /\ cs[2].card = cs[1].card
               /\ cs[2].card \notin {current_board.cards[k].id : k \in DOMAIN current_board.cards}
               /\ cs[2].req.field_id = canvas_url_field_id
               /\ cs[2].req.value = TextValue(CanonicalText(asg))

C1_Witness ==
  \E p \in Seen :
    /\ pc /= "start" /\ canvas_url_field_id /= ""
    /\ MatchedIdx(AsgOf(p[1], p[2])) = {}
    /\ Completed(p[1], p[2])
    /\ Len(CallsOf(p[1], p[2])) = 2
    /\ CallsOf(p[1], p[2])[2].res = "ok"
    /\ AsgOf(p[1], p[2]).submitted
    /\ current_board.cards /= <<>>

\* C5: per assignment one of two branches runs.  With no matched card: one create
\* decision and no update / up-to-date decision.  With N >= 1 matched cards: N
\* decisions, the k-th on the k-th matched card of the snapshot, each an update or
\* an up-to-date decision that depends on that card's own fields only, and no
\* create_card.  Until sync_assignment has returned the decisions are a prefix.
C5_OneBranchPerAssignment ==
  \A p \in Seen :
    LET m == p[1]
        a == p[2]
        cards == Matched(AsgOf(m, a))
        ds == DecisionsOf(m, a)
    IN  (pc /= "start" /\ (Reached(m, a) \/ ds /= <<>>)) =>
          IF cards = <<>>
            THEN /\ Len(ds) <= 1
                 /\ Completed(m, a) => Len(ds) = 1
                 /\ \A k \in DOMAIN ds : ds[k].op = "create_card"
            ELSE /\ Len(ds) <= Len(cards)
                 /\ Completed(m, a) => Len(ds) = Len(cards)
                 /\ \A k \in DOMAIN ds :
                      /\ ds[k].op \in {"update_card", "up_to_date"}
                      /\ ds[k].card = cards[k].id
                 /\ \A j, k \in DOMAIN ds :
                      (/\ cards[j].due = cards[k].due
                       /\ cards[j].due_complete = cards[k].due_complete
                       /\ cards[j].desc = cards[k].desc) => ds[j].op = ds[k].op

\* Two duplicates of one assignment got different decisions.
C5_Witness ==
  \E p \in Seen :
    /\ Completed(p[1], p[2])
    /\ Len(Matched(AsgOf(p[1], p[2]))) = 2
    /\ Len(DecisionsOf(p[1], p[2])) = 2
    /\ DecisionsOf(p[1], p[2])[1].op /= DecisionsOf(p[1], p[2])[2].op

\* C6: a matched card whose due is absent or differs from the assignment's due_at
\* gets an update_card carrying due = due_at, whatever its due_complete and its
\* description.
C6_DueMismatchUpdates ==
  \A p \in Seen :
    LET m == p[1]
        a == p[2]
        asg == AsgOf(m, a)
        cards == Matched(asg)
        ds == DecisionsOf(m, a)
    IN  (pc /= "start" /\ (Reached(m, a) \/ ds /= <<>>)) =>
          \A k \in DOMAIN cards :
            cards[k].due /= Some(asg.due_at) =>
              /\ Completed(m, a) => k \in DOMAIN ds
              /\ k \in DOMAIN ds =>
                   /\ ds[k].op = "update_card"
                   /\ ds[k].card = cards[k].id
                   /\ ds[k].req.due = asg.due_at

\* A card without due, with the right flag and an unmanaged description, updated.
C6_Witness ==
  \E p \in Seen :
    LET asg == AsgOf(p[1], p[2])
        cards == Matched(asg)
        ds == DecisionsOf(p[1], p[2])
    IN  /\ Completed(p[1], p[2])
        /\ \E k \in DOMAIN cards :
             /\ cards[k].due = None
             /\ cards[k].due_complete = asg.submitted
             /\ ~starts_with(cards[k].desc, desc_header)
             /\ k \in DOMAIN ds
             /\ ds[k].op = "update_card"
             /\ ds[k].res = "ok"

\* C7: at a matched card whose due, due_complete and description equal the
\* assignment's, the step taken is the up-to-date decision: no board call, the
\* board unchanged, count_up_to_date one higher, the other counters unchanged.
AtCard == pc = "cards" /\ ci <= Len(cards_with_correct_url)
CardInSync ==
  /\ AtCard
  /\ existing_card.due = Some(assignment.due_at)
  /\ existing_card.due_complete = assignment.submitted
  /\ existing_card.desc = new_description_of(assignment)
C7_InSyncIsNoOp ==
  [][CardInSync =>
       /\ calls' = Append(calls, Call("up_to_date", mi, ai, existing_card.id, "ok", NoReq))
       /\ board' = board
       /\ count_up_to_date' = count_up_to_date + 1
       /\ count_created' = count_created
       /\ count_updated' = count_updated
       /\ count_assignments' = count_assignments]_vars

C7_Witness ==
  /\ pc = "cards"
  /\ ci = 2
  /\ calls[Len(calls)].op = "up_to_date"
  /\ cards_with_correct_url[1].desc = <<desc_header, desc_rule, "a">>
  /\ count_up_to_date = 1

\* C8: abort on the first error, no retry, no rollback.  From an ended run the
\* only step is the next start of the binary; a step into the failed state leaves
\* the board as it is and the run's record without a summary; a call that returned
\* an error is the last entry of the record and the run has failed; a lookup that
\* finds nothing fails the run; and what the board was sent with success stays
\* applied: a created card is on the board, a card carries its last update.
Last(q) == q[Len(q)]
OkUpdatesOf(id) ==
  SelectSeq(calls, LAMBDA c : c.op = "update_card" /\ c.card = id /\ c.res = "ok")
MutationsApplied ==
  /\ \A k \in DOMAIN calls :
       (calls[k].op = "create_card" /\ calls[k].res = "ok") =>
         \E j \in DOMAIN board.cards : board.cards[j].id = calls[k].card
  /\ \A j \in DOMAIN board.cards :
       LET ups == OkUpdatesOf(board.cards[j].id) IN
         ups /= <<>> =>
           /\ board.cards[j].due = Some(Last(ups).req.due)
           /\ board.cards[j].due_complete = Last(ups).req.dueComplete
           /\ board.cards[j].desc = Last(ups).req.desc
LookupFails ==
  \/ pc = "find_field" /\ \A k \in DOMAIN current_board.custom_fields :
                             current_board.custom_fields[k].name /= "Canvas URL"
  \/ pc = "find_list" /\ \A k \in DOMAIN current_board.lists :
                            current_board.lists[k].name /= config.add_to_list
  \/ /\ pc = "assignments" /\ ai <= Len(assignments)
     /\ assignment.html_url.scheme \in {"http", "https"}
     /\ LabelIdsNamed(config.mapping[mi].trello_label_name) = {}
C8_AbortOnFirstError ==
  [][/\ Ended => (run' = run + 1 /\ calls' = <<>> /\ board' = board)
     /\ (~Ended /\ Ended' /\ pc' /= "done") =>
          /\ board' = board
          /\ \A k \in DOMAIN calls' : calls'[k].op /= "summary"
     /\ (calls' /= <<>> /\ calls' /= calls /\ Last(calls').res = "err") => pc' = "failed"
     /\ (\E k \in DOMAIN calls' : calls'[k].res = "err") =>
          (pc' = "failed" /\ Last(calls').res = "err")
     /\ LookupFails => (pc' = "failed" /\ calls' = calls)
     /\ MutationsApplied']_vars

\* A second update_card returned an error after a first one was applied.
C8_Witness ==
  /\ pc = "failed"
  /\ Len(calls) >= 2
  /\ Last(calls).op = "update_card" /\ Last(calls).res = "err"
  /\ \E k \in DOMAIN calls : calls[k].op = "update_card" /\ calls[k].res = "ok"
  /\ board /= [current_board EXCEPT !.cards = board.cards] \/ board.cards /= current_board.cards

\* C10: the summary counters of a successful run, and their growth during a run.
MatchCount(p) == Cardinality(MatchedIdx(AsgOf(p[1], p[2])))
RECURSIVE SumMatchCount(_)
SumMatchCount(S) ==
  IF S = {} THEN 0
  ELSE LET x == CHOOSE y \in S : TRUE IN MatchCount(x) + SumMatchCount(S \ {x})
SummaryHolds ==
  /\ count_assignments = Cardinality(Seen)
  /\ count_created = Cardinality({p \in Seen : MatchCount(p) = 0})
  /\ count_updated + count_up_to_date = SumMatchCount(Seen)
  /\ count_created + count_updated + count_up_to_date >= count_assignments
  /\ (count_created + count_updated + count_up_to_date = count_assignments)
       <=> (\A p \in Seen : MatchCount(p) <= 1)
C10_SummaryCounters ==
  [][/\ pc' = "done" => SummaryHolds'
     /\ run' = run =>
          /\ count_assignments' >= count_assignments
          /\ count_created' >= count_created
          /\ count_updated' >= count_updated
          /\ count_up_to_date' >= count_up_to_date]_vars

\* A successful run in which one assignment matched two cards, one updated and
\* one up to date.
C10_Witness ==
  /\ pc = "done"
  /\ count_updated >= 1 /\ count_up_to_date >= 1
  /\ count_created + count_updated + count_up_to_date > count_assignments

\* C2 (as stated): after a successful run in which the board applied everything it
\* was sent, the next run issues no create_card and no update_card, whatever the
\* mappings and the assignment lists.
AfterCleanRun ==
  /\ run >= 2
  /\ past[run - 1].status = "done"
  /\ ~past[run - 1].lost
NoMutationIssued ==
  \A k \in DOMAIN calls : calls[k].op \notin {"create_card", "update_card"}
C2_Idempotent_AsStated == AfterCleanRun => NoMutationIssued

\* C2 (amended): the same, for assignment lists in which the assignments that
\* share a canonical URL agree on due_at, submission flag and rendered description.
SameUrlSameContent ==
  \A p, q \in Seen :
    LET x == AsgOf(p[1], p[2])
        y == AsgOf(q[1], q[2])
    IN  CanonicalText(x) = CanonicalText(y) =>
          /\ x.due_at = y.due_at
          /\ x.submitted = y.submitted
          /\ new_description_of(x) = new_description_of(y)
C2_Idempotent == (AfterCleanRun /\ SameUrlSameContent) => NoMutationIssued

\* The second run ended with nothing but up-to-date decisions after a first run
\* that created a card and updated another.
C2_Witness ==
  /\ AfterCleanRun /\ SameUrlSameContent
  /\ pc = "done"
  /\ count_up_to_date >= 2
  /\ past[run - 1].mutated = {"create_card", "update_card"}

\* C3: after a successful run, started from a board on which no canonical URL is
\* on two cards and on which every call was applied, every assignment seen has
\* exactly one card tracking its canonical URL.
TextsOf(card) ==
  {card.custom_field_items[i].value.text :
     i \in {j \in DOMAIN card.custom_field_items :
              /\ card.custom_field_items[j].id_custom_field = canvas_url_field_id
              /\ card.custom_field_items[j].value.kind = "Text"}}
SnapshotWithoutDuplicates ==
  \A j, k \in DOMAIN current_board.cards :
    j /= k => TextsOf(current_board.cards[j]) \cap TextsOf(current_board.cards[k]) = {}
CardsTracking(a) ==
  {k \in DOMAIN board.cards : Tracks(board.cards[k], canvas_url_field_id, a)}
C3_OneCardPerAssignment ==
  (/\ pc = "done"
   /\ SnapshotWithoutDuplicates
   /\ \A k \in DOMAIN calls : calls[k].res = "ok") =>
    \A p \in Seen : Cardinality(CardsTracking(AsgOf(p[1], p[2]))) = 1

\* C4: a snapshot card whose description does not start with the header keeps its
\* description on the board throughout the run.
C4_UnmanagedDescriptionKept ==
  \A k \in DOMAIN current_board.cards :
    ~starts_with(current_board.cards[k].desc, desc_header) =>
      board.cards[k].desc = current_board.cards[k].desc

\* C9: on the step where set_card_custom_field fails after create_card succeeded,
\* count_created stays, the run fails, and the new card is on the board without a
\* tracking item; no later run matches a card so orphaned.
Orphans == UNION {{o[1] : o \in past[r].orphans} : r \in DOMAIN past}
SetFieldFails ==
  /\ pc = "set_field"
  /\ calls' /= calls
  /\ Last(calls').res = "err"
C9_OrphanOnSetFieldFailure ==
  [][/\ SetFieldFails =>
          /\ count_created' = count_created
          /\ pc' = "failed"
          /\ \E k \in DOMAIN board'.cards :
               /\ board'.cards[k].id = new_card.id
               /\ board'.cards[k].custom_field_items = <<>>
     /\ \A k \in DOMAIN cards_with_correct_url' :
          cards_with_correct_url'[k].id \notin Orphans']_vars

\* C9, last part (as stated): the later run creates another card for the
\* assignment whose card was orphaned.
OrphanedAssignments(r) == {<<o[2], o[3]>> : o \in past[r].orphans}
C9_LaterRunCreatesAgain ==
  \A r \in DOMAIN past :
    \A p \in OrphanedAssignments(r) :
      Completed(p[1], p[2]) =>
        \E k \in DOMAIN calls :
          calls[k].m = p[1] /\ calls[k].a = p[2] /\ calls[k].op = "create_card"

\* C11: a mapping whose label name is on no label of the snapshot never has its
\* assignment list fetched, and the run does not get past it.
C11_LabelResolvedBeforeFetch ==
  \A m \in DOMAIN config.mapping :
    (current_board /= NoBoard
       /\ LabelIdsNamed(config.mapping[m].trello_label_name) = {}) =>
      /\ \A k \in DOMAIN calls : ~(calls[k].op = "get_assignments" /\ calls[k].m = m)
      /\ ~(m < mi)

\* C12: an update_card or set_card_custom_field the board answered with an error
\* response is the last entry of the record of a failed run, and count_updated /
\* count_created count only the calls the board applied.
AppliedCalls(op) == {k \in DOMAIN calls : calls[k].op = op /\ calls[k].res = "ok"}
C12_ErrorResponseFails ==
  /\ \A k \in DOMAIN calls :
       calls[k].res = "rejected" => (pc = "failed" /\ k = Len(calls))
  /\ count_updated <= Cardinality(AppliedCalls("update_card"))
  /\ count_created <= Cardinality(AppliedCalls("set_card_custom_field"))

\* C13: an assignment whose URL cannot take the https scheme ends the run through
\* the error path (the run fails, it does not panic), sync_assignment does not
\* return Ok for it and no call is recorded for it.
C13_InvalidUrlIsAnError ==
  /\ pc /= "panicked"
  /\ \A p \in Seen :
       ~set_scheme_ok(AsgOf(p[1], p[2]).html_url, "https") =>
         /\ CallsOf(p[1], p[2]) = <<>>
         /\ ~Completed(p[1], p[2])

\* C14: the matched cards of an assignment are exactly the snapshot cards that
\* carry, for the tracking field, a text value equal to the canonical URL, cards
\* with several items for the field included.
HoldsCanonicalText(card, a) == CanonicalText(a) \in TextsOf(card)
C14_MatchedExactly ==
  pc = "cards" =>
    {cards_with_correct_url[k].id : k \in DOMAIN cards_with_correct_url} =
      {current_board.cards[k].id :
         k \in {j \in DOMAIN current_board.cards :
                  HoldsCanonicalText(current_board.cards[j], assignment)}}

\* C15: at a matched card whose due and description equal the assignment's and
\* whose due_complete differs from the submission flag, the step taken is an
\* update_card on that card carrying dueComplete = submission flag; unless the
\* call returns an error, count_updated goes up by one and count_created,
\* count_up_to_date stay; when it returns an error no counter moves and the run
\* has failed.
FlagOnlyMismatch ==
  /\ AtCard
  /\ existing_card.due = Some(assignment.due_at)
  /\ existing_card.due_complete /= assignment.submitted
  /\ existing_card.desc = new_description_of(assignment)
C15_FlagMismatchUpdates ==
  [][FlagOnlyMismatch =>
       /\ Len(calls') = Len(calls) + 1
       /\ Last(calls').op = "update_card"
       /\ Last(calls').card = existing_card.id
       /\ Last(calls').req.dueComplete = assignment.submitted
       /\ count_created' = count_created
       /\ count_up_to_date' = count_up_to_date
       /\ count_assignments' = count_assignments
       /\ IF Last(calls').res = "err"
            THEN count_updated' = count_updated /\ pc' = "failed"
            ELSE count_updated' = count_updated + 1]_vars

\* The first matched card differed in the flag only and was updated; the three
\* counters stand at 0 / 1 / 0.
C15_Witness ==
  /\ pc = "cards"
  /\ ci = 2
  /\ Last(calls).op = "update_card" /\ Last(calls).res = "ok"
  /\ cards_with_correct_url[1].due = Some(assignment.due_at)
  /\ cards_with_correct_url[1].due_complete /= assignment.submitted
  /\ cards_with_correct_url[1].desc = new_description_of(assignment)
  /\ assignment.submitted
  /\ count_updated = 1 /\ count_created = 0 /\ count_up_to_date = 0

\* C16: at a matched card with the assignment's due and due_complete, a
\* description without the header gives the up-to-date decision whatever it is,
\* and a description with the header that differs from the rendered one gives an
\* update_card carrying the rendered description.
DueAndFlagInSync ==
  /\ AtCard
  /\ existing_card.due = Some(assignment.due_at)
  /\ existing_card.due_complete = assignment.submitted
C16_HeaderGuardsDescription ==
  [][DueAndFlagInSync =>
       /\ Len(calls') = Len(calls) + 1
       /\ Last(calls').card = existing_card.id
       /\ IF ~starts_with(existing_card.desc, desc_header)
            THEN /\ Last(calls').op = "up_to_date"
                 /\ board' = board
                 /\ count_updated' = count_updated
            ELSE existing_card.desc /= new_description_of(assignment) =>
                   /\ Last(calls').op = "update_card"
                   /\ Last(calls').req.desc = new_description_of(assignment)]_vars

\* Two matched cards in sync but for the description: the one with notes of its
\* owner was left alone, the managed one with a stale description was updated.
C16_Witness ==
  /\ pc = "cards"
  /\ ci = 3
  /\ \A k \in 1..2 :
       /\ cards_with_correct_url[k].due = Some(assignment.due_at)
       /\ cards_with_correct_url[k].due_complete = assignment.submitted
       /\ cards_with_correct_url[k].desc /= new_description_of(assignment)
  /\ ~starts_with(cards_with_correct_url[1].desc, desc_header)
  /\ starts_with(cards_with_correct_url[2].desc, desc_header)
  /\ calls[Len(calls) - 1].op = "up_to_date"
  /\ Last(calls).op = "update_card" /\ Last(calls).res = "ok"

\* C17: every update_card carries exactly due, dueComplete and desc, set to the
\* assignment's due_at, submission flag and rendered description; the cards of
\* the snapshot stay on the board in their places with their name, labels, list
\* and custom field items; set_card_custom_field is only issued on the card the
\* preceding create_card of this run returned.
SnapshotIds == {current_board.cards[k].id : k \in DOMAIN current_board.cards}
C17_FullPatchAndFrame ==
  /\ \A k \in DOMAIN calls :
       calls[k].op = "update_card" =>
         LET asg == AsgOf(calls[k].m, calls[k].a) IN
           /\ DOMAIN calls[k].req = {"due", "dueComplete", "desc"}
           /\ calls[k].req.due = asg.due_at
           /\ calls[k].req.dueComplete = asg.submitted
           /\ calls[k].req.desc = new_description_of(asg)
           /\ calls[k].card \in SnapshotIds
  /\ \A k \in DOMAIN calls :
       calls[k].op = "set_card_custom_field" =>
         /\ calls[k].card \notin SnapshotIds
         /\ k > 1
         /\ calls[k - 1].op = "create_card" /\ calls[k - 1].res = "ok"
         /\ calls[k - 1].card = calls[k].card
  /\ current_board /= NoBoard =>
       /\ Len(board.cards) >= Len(current_board.cards)
       /\ \A j \in DOMAIN current_board.cards :
            /\ board.cards[j].id = current_board.cards[j].id
            /\ board.cards[j].name = current_board.cards[j].name
            /\ board.cards[j].labels = current_board.cards[j].labels
            /\ board.cards[j].list = current_board.cards[j].list
            /\ board.cards[j].custom_field_items = current_board.cards[j].custom_field_items

\* A card whose due was right got the full patch for its flag alone: due_complete
\* and description changed on the board, the rest of the card did not.
C17_Witness ==
  /\ pc = "cards"
  /\ ci = 2
  /\ Last(calls).op = "update_card" /\ Last(calls).res = "ok"
  /\ cards_with_correct_url[1].due = Some(assignment.due_at)
  /\ \E j \in DOMAIN current_board.cards :
       /\ current_board.cards[j].id = cards_with_correct_url[1].id
       /\ board.cards[j].due_complete /= current_board.cards[j].due_complete
       /\ board.cards[j].desc /= current_board.cards[j].desc
       /\ board.cards[j].custom_field_items = current_board.cards[j].custom_field_items

\* C18: the snapshot is fetched once per run, as the first call of the run, and
\* the tracking field and the target list are resolved from it before anything
\* else: a run whose snapshot lacks the field named "Canvas URL" or the list
\* named add_to_list has failed with get_board_contents as its only call.
NamesOf(xs) == {xs[k].name : k \in DOMAIN xs}
C18_SnapshotOnceLookupsFirst ==
  /\ \A k \in DOMAIN calls : (calls[k].op = "get_board_contents") <=> (k = 1)
  /\ (\E k \in DOMAIN calls : calls[k].op /= "get_board_contents") =>
       /\ calls[1].res = "ok"
       /\ "Canvas URL" \in NamesOf(current_board.custom_fields)
       /\ config.add_to_list \in NamesOf(current_board.lists)
       /\ canvas_url_field_id \in
            {current_board.custom_fields[k].id : k \in DOMAIN current_board.custom_fields}
       /\ new_card_list_id \in {current_board.lists[k].id : k \in DOMAIN current_board.lists}
  /\ (/\ current_board /= NoBoard
      /\ pc \notin {"find_field", "find_list"}
      /\ \/ "Canvas URL" \notin NamesOf(current_board.custom_fields)
         \/ config.add_to_list \notin NamesOf(current_board.lists)) =>
       /\ pc = "failed"
       /\ Len(calls) = 1
       /\ board = current_board

\* A run that failed on a board without the list, with an assignment waiting.
C18_Witness ==
  /\ pc = "failed"
  /\ Len(calls) = 1 /\ calls[1].res = "ok"
  /\ "Canvas URL" \in NamesOf(current_board.custom_fields)
  /\ config.add_to_list \notin NamesOf(current_board.lists)
  /\ \E c \in Courses : course[c] /= <<>>

\* C19: the run's record is in processing order.  Calls are recorded one at a
\* time, each with its outcome; the entries of mapping i come before those of
\* mapping i + 1, within a mapping the fetch comes first and the entries of
\* assignment j before those of assignment j + 1, within an assignment the card
\* decisions go up in snapshot position; nothing is recorded ahead of the place
\* the run is at, and the loop over the matched cards stands right behind its
\* last decision.
Before(c, d) == c.m < d.m \/ (c.m = d.m /\ c.a <= d.a)
PosOf(id) == CHOOSE j \in DOMAIN current_board.cards : current_board.cards[j].id = id
C19_SequentialInOrder ==
  /\ \A j, k \in DOMAIN calls :
       (j < k /\ calls[j].op /= "summary" /\ calls[k].op /= "summary") =>
         /\ Before(calls[j], calls[k])
         /\ (/\ calls[j].m = calls[k].m /\ calls[j].a = calls[k].a
             /\ calls[j].op \in {"update_card", "up_to_date"}) =>
              /\ calls[k].op \in {"update_card", "up_to_date"}
              /\ PosOf(calls[j].card) < PosOf(calls[k].card)
  /\ \A k \in DOMAIN calls :
       /\ calls[k].m > 0 =>
            /\ calls[k].m <= Len(config.mapping)
            /\ calls[k].m < mi \/ (calls[k].m = mi /\ calls[k].a <= ai)
            /\ calls[k].a > 0 =>
                 \E j \in 1..k : /\ calls[j].op = "get_assignments" /\ calls[j].res = "ok"
                                  /\ calls[j].m = calls[k].m
       /\ calls[k].res = "err" => k = Len(calls)
       /\ calls[k].op = "summary" => k = Len(calls)
  /\ \A m \in DOMAIN config.mapping :
       Cardinality({k \in DOMAIN calls : calls[k].op = "get_assignments" /\ calls[k].m = m}) <= 1
  /\ (pc = "cards" /\ cards_with_correct_url /= <<>>) =>
       Len(DecisionsOf(mi, ai)) = ci - 1

\* Two mappings with one assignment each, the first matched and updated, the
\* second created: five calls after the snapshot, in that order.
C19_Witness ==
  /\ pc = "done"
  /\ Len(config.mapping) = 2
  /\ Len(calls) = 7
  /\ <<calls[2].op, calls[3].op, calls[4].op, calls[5].op, calls[6].op>> =
       <<"get_assignments", "update_card", "get_assignments", "create_card",
         "set_card_custom_field">>
  /\ calls[3].m = 1 /\ calls[5].m = 2

\* C20: the field, list and label ids the run works with are those of the first
\* snapshot entry whose name equals the name looked up, letter for letter; every
\* create_card of the run carries that list id and the label id of its mapping,
\* and a mapping whose label name is on no label gets no board call.
FirstNamed(xs, name) ==
  LET idx == {k \in DOMAIN xs : xs[k].name = name}
  IN  xs[CHOOSE k \in idx : \A j \in idx : k <= j].id
C20_FirstExactNameWins ==
  /\ canvas_url_field_id /= "" =>
       /\ "Canvas URL" \in NamesOf(current_board.custom_fields)
       /\ canvas_url_field_id = FirstNamed(current_board.custom_fields, "Canvas URL")
  /\ new_card_list_id /= "" =>
       /\ config.add_to_list \in NamesOf(current_board.lists)
       /\ new_card_list_id = FirstNamed(current_board.lists, config.add_to_list)
  /\ \A k \in DOMAIN calls :
       calls[k].op \in {"create_card", "update_card", "up_to_date", "set_card_custom_field"} =>
         config.mapping[calls[k].m].trello_label_name \in NamesOf(current_board.labels)
  /\ \A k \in DOMAIN calls :
       calls[k].op = "create_card" =>
         /\ calls[k].req.idList = FirstNamed(current_board.lists, config.add_to_list)
         /\ calls[k].req.label_ids =
              <<FirstNamed(current_board.labels, config.mapping[calls[k].m].trello_label_name)>>
  /\ (pc \in {"cards", "set_field"}) =>
       label_id = FirstNamed(current_board.labels, config.mapping[mi].trello_label_name)

\* Two cards created in one run, both into the first of the two lists named
\* "To Do" and under the first of the two labels named "Math".
C20_Witness ==
  /\ pc = "done"
  /\ Cardinality({k \in DOMAIN calls :
                    /\ calls[k].op = "create_card" /\ calls[k].res = "ok"
                    /\ calls[k].req.idList = "li2"
                    /\ calls[k].req.label_ids = <<"lb1">>}) = 2
  /\ Cardinality(LabelIdsNamed("Math")) = 2
  /\ canvas_url_field_id = "f1"

====
